---- MODULE Spec2Model ----
(***************************************************************************)
(* Real-Debrid downloader (src/src/program/downloaders/realdebrid.py):     *)
(* validate, cache resolution (is_cached), the reuse check                 *)
(* (torrent_is_downloaded), the download orchestration (download,          *)
(* set_active_files) and the top-level run(item), against a provider       *)
(* account whose remote calls may each fail. Spec has one caller,          *)
(* SpecConcurrent two callers on the one downloader; SpecResolve and       *)
(* SpecBind apply the resolver and set_active_files to enumerated inputs.  *)
(* SpecScrape applies the run entry points of the Mediafusion and TorBox   *)
(* scrapers (src/src/program/services/scrapers) to enumerated responses.   *)
(***************************************************************************)
EXTENDS Integers, Sequences, FiniteSets, TLC

\* ------------------------------------------------------------------ bounds

\* Number of candidate streams (info-hashes) of an item.
NHashes == 2
\* Number of run(item) calls one flow makes.
MaxRuns == 2
\* Number of containers one availability payload reports for a hash.
MaxContainers == 2

Hashes == 1..NHashes

\* The value Python's None / a failed call's result takes where an id is expected.
None == 0

\* --------------------------------------------------------------- settings

\* downloaders.movie_filesize_min / _max and episode_filesize_min / _max
\* (megabytes, -1 = unbounded).
movie_filesize_min == 500
movie_filesize_max == 1150
episode_filesize_min == 40
episode_filesize_max == -1
Mega == 1000000

\* The tests validate makes on the four bounds.
FilesizeSettingsValid ==
    /\ movie_filesize_min >= -1
    /\ movie_filesize_max >= -1
    /\ episode_filesize_min >= -1
    /\ episode_filesize_max >= -1

\* FileFinder(..., min, max) as constructed in __init__.
FinderMin == episode_filesize_min * Mega
FinderMaxIsInf == episode_filesize_max = -1
FinderMax == episode_filesize_max * Mega

\* ----------------------------------------------------------- rate limiters

\* RateLimiter(max_calls, period): max_calls calls per period seconds.
RateLimiter(max_calls, period) == [max_calls |-> max_calls, period |-> period]
torrents_rate_limiter == RateLimiter(1, 1)
overall_rate_limiter == RateLimiter(60, 60)

\* Limiters with the torrents limiter left out at every call site.
LimitersOverallOnly(op) == {overall_rate_limiter}

\* The limiters each call site hands to the transport with its request
\* (specific_rate_limiter=, overall_rate_limiter=), by endpoint.
Limiters(op) ==
    CASE op = "user" -> {overall_rate_limiter}
      [] op = "addMagnet" -> {torrents_rate_limiter, overall_rate_limiter}
      [] op = "instantAvailability" -> {torrents_rate_limiter, overall_rate_limiter}
      [] op = "info" -> {torrents_rate_limiter, overall_rate_limiter}
      [] op = "selectFiles" -> {torrents_rate_limiter, overall_rate_limiter}
      [] op = "torrents" -> {torrents_rate_limiter, overall_rate_limiter}

\* A request as the transport issues it: every limiter handed over is acquired
\* before the request is sent.
Issue(op) == [op |-> op, acquired |-> Limiters(op)]
NoCall == [op |-> "none", acquired |-> {}]

\* ------------------------------------------------------------- media items

Item(type, number, episodes) == [type |-> type, number |-> number, episodes |-> episodes]
MovieItem == Item("movie", 0, <<>>)
SeasonItem == Item("season", 1, <<1, 2>>)
EpisodeOf(n) == Item("episode", n, <<>>)
\* A show of one season, by the episodes of its seasons in order.
ShowItem == Item("show", 0, <<1, 2>>)
EpisodeItem == EpisodeOf(1)
Items == {MovieItem, SeasonItem, ShowItem, EpisodeItem}

\* ------------------------------------------------------------------- files

\* A file as the File Matcher sees it.
File(id, name, size) == [id |-> id, filename |-> name, filesize |-> size]

\* The files of every torrent of the modelled world, by provider file id.
FileA == File(1, "s01e01.mkv", 1200000000)
FileA2 == File(2, "s01e01.proper.mkv", 1100000000)
FileB == File(3, "s01e02.mkv", 1200000000)
FileS == File(4, "sample.mkv", 20000000)
TorrentFiles == <<FileA, FileA2, FileB, FileS>>

\* Episode number a file name parses to (0: none).
ParseEpisode(name) ==
    CASE name = "s01e01.mkv" -> 1
      [] name = "s01e01.proper.mkv" -> 1
      [] name = "s01e02.mkv" -> 2
      [] OTHER -> 0

\* The filesize gate: size within [min, max].
PassesGate(size) == size >= FinderMin /\ (FinderMaxIsInf \/ size <= FinderMax)

KeepGated(f) == PassesGate(f.filesize)
Gated(files) == SelectSeq(files, KeepGated)

FirstOrNone(s) == IF s = <<>> THEN <<>> ELSE <<s[1]>>

MatchEpisode(n, files) ==
    LET IsEp(f) == ParseEpisode(f.filename) = n
    IN FirstOrNone(SelectSeq(Gated(files), IsEp))

RECURSIVE ConcatAll(_)
ConcatAll(ss) == IF ss = <<>> THEN <<>> ELSE Head(ss) \o ConcatAll(Tail(ss))

\* FileFinder.find_required_files(item, container): the files that satisfy the
\* item, or <<>> when the item cannot be satisfied.
find_required_files(item, files) ==
    CASE item.type = "movie" -> FirstOrNone(Gated(files))
      [] item.type = "episode" -> MatchEpisode(item.number, files)
      [] OTHER ->
           LET per == [i \in 1..Len(item.episodes) |-> MatchEpisode(item.episodes[i], files)]
           IN IF per = <<>> \/ \E i \in 1..Len(per) : per[i] = <<>>
              THEN <<>>
              ELSE ConcatAll(per)

\* ------------------------------------------------ instant-availability data

\* A container as the provider reports it: file id -> {filename, filesize},
\* in the payload's order. isdict and isrecord tell a payload of the expected
\* shape from one that has something else in the place of the container dict
\* or of a file record.
Entry(key, isrecord, filename, filesize) ==
    [key |-> key, isrecord |-> isrecord,
     value |-> [filename |-> filename, filesize |-> filesize]]
Cont(files) ==
    [isdict |-> TRUE,
     items |-> [i \in 1..Len(files) |->
                  Entry(files[i].id, TRUE, files[i].filename, files[i].filesize)]]

ContFull == Cont(<<FileA, FileB>>)
ContAlt == Cont(<<FileA2, FileB>>)
ContPartial == Cont(<<FileA, FileS>>)
ContSample == Cont(<<FileS>>)
Containers == {ContFull, ContAlt, ContPartial, ContSample}

\* Unexpected payloads: a container that is not a dict (a string, a number),
\* and a container dict whose entry is not a file record.
ContNotDict == [isdict |-> FALSE, items |-> <<>>]
ContBadEntry == [isdict |-> TRUE, items |-> <<Entry(FileA.id, FALSE, "", 0)>>]
Malformed == {ContNotDict, ContBadEntry}
AnyContainers == Containers \cup Malformed

\* The per-hash value of the availability response: a dict of container lists
\* (provider.values() in order), or something that is not a dict (the
\* provider's [] for an unknown hash, or any other value).
DictPayload(lists) == [isdict |-> TRUE, lists |-> lists]
NotDict == [isdict |-> FALSE, lists |-> <<>>]

ContSeqs(n) == [1..n -> AnyContainers]

\* Dict payloads of one or two container lists holding at most MaxContainers
\* containers in all, and the empty dict.
DictPayloads ==
    {DictPayload(<<>>)}
    \cup {DictPayload(<<a>>) : a \in UNION {ContSeqs(n) : n \in 0..MaxContainers}}
    \cup UNION {UNION {{DictPayload(<<a, b>>) : a \in ContSeqs(n), b \in ContSeqs(m)}
                       : m \in 0..(MaxContainers - n)} : n \in 0..MaxContainers}

Payloads == DictPayloads \cup {NotDict}

\* What the transport hands back for one GET/POST: ok with data, or not ok /
\* an exception (both reach the caller as the failure value).
Reply(ok, data) == [ok |-> ok, data |-> data]
Failure == Reply(FALSE, <<>>)

\* Availability responses for a list of hashes: one entry per requested hash,
\* in request order.
AvailEntry(h, p) == [hash |-> h, provider |-> p]
AvailData(hashes) ==
    {[i \in 1..Len(hashes) |-> AvailEntry(hashes[i], ps[i])] : ps \in [1..Len(hashes) -> Payloads]}
AvailReplies(hashes) == {Failure} \cup {Reply(TRUE, d) : d \in AvailData(hashes)}

\* The replies run's one-hash availability check is given: a failure, a
\* payload that is not a dict, or a dict of one list of one container.
StreamReplies(h) ==
    {Failure} \cup {Reply(TRUE, <<AvailEntry(h, p)>>) :
                       p \in {NotDict} \cup {DictPayload(<<<<c>>>>) : c \in AnyContainers}}

\* ---------------------------------------------------------- cache resolver

\* get_instant_availability without the test of line 268: the request is issued
\* whatever the hash list.
get_instant_availabilityNoGuard(hashes, net) ==
    [data |-> IF net.ok THEN net.data ELSE <<>>, requests |-> 1,
     calls |-> <<Issue("instantAvailability")>>, errors |-> <<>>]

\* get_instant_availability(hashes): for an empty list "No hashes found" is
\* logged as an error and {} returned with no request; else the data of an ok
\* response, or {}. errors holds the messages of line 269 (the message of line
\* 284 belongs to an exception of the transport, which Failure does not tell
\* from a response that is not ok).
get_instant_availability(hashes, net) ==
    IF hashes = <<>>
    THEN [data |-> <<>>, requests |-> 0, calls |-> <<>>, errors |-> <<"No hashes found">>]
    ELSE [data |-> IF net.ok THEN net.data ELSE <<>>, requests |-> 1,
          calls |-> <<Issue("instantAvailability")>>, errors |-> <<>>]

\* _container = [{**file, 'id': file_id} for file_id, file in container.items()]
TagIds(container) ==
    [i \in 1..Len(container.items) |->
        File(container.items[i].key, container.items[i].value.filename,
             container.items[i].value.filesize)]

\* Whether line 144 raises on the container: container.items() on something
\* that is not a dict (AttributeError), {**file} on something that is not a
\* mapping (TypeError).
Raises(container) ==
    \/ ~container.isdict
    \/ \E i \in 1..Len(container.items) : ~container.items[i].isrecord

\* return_dict[hash] = files
DictPut(d, k, v) == [x \in DOMAIN d \cup {k} |-> IF x = k THEN v ELSE d[x]]
EmptyDict == [x \in {} |-> <<>>]

\* The state of is_cached's loops: return_dict, the File Matcher calls made so
\* far (hash, list index, container index), whether it has returned and
\* whether it was left by an exception.
ScanState(dict, calls, returned, raised) ==
    [dict |-> dict, calls |-> calls, returned |-> returned, raised |-> raised]

\* ScanContainers with "return return_dict" lost: the match is recorded and the
\* loop is only broken out of, whatever break_on_first says.
ScanContainersNoReturn(item, hash, clist, li, ci, break_on_first, acc) ==
    LET RECURSIVE Go(_, _)
        Go(i, a) ==
            IF i > Len(clist) THEN a
            ELSE IF Raises(clist[i]) THEN [a EXCEPT !.returned = TRUE, !.raised = TRUE]
            ELSE LET files == find_required_files(item, TagIds(clist[i]))
                     called == [a EXCEPT !.calls = Append(@, <<hash, li, i>>)]
                 IN IF files # <<>>
                    THEN [called EXCEPT !.dict = DictPut(@, hash, files)]
                    ELSE Go(i + 1, called)
    IN Go(ci, acc)

\* ScanContainers with the test "if files:" lost: what the container holds is
\* recorded for the hash even when the File Matcher found the item unsatisfied.
ScanContainersKeepPartial(item, hash, clist, li, ci, break_on_first, acc) ==
    LET RECURSIVE Go(_, _)
        Go(i, a) ==
            IF i > Len(clist) THEN a
            ELSE IF Raises(clist[i]) THEN [a EXCEPT !.returned = TRUE, !.raised = TRUE]
            ELSE LET files == find_required_files(item, TagIds(clist[i]))
                     called == [a EXCEPT !.calls = Append(@, <<hash, li, i>>)]
                 IN IF TagIds(clist[i]) # <<>>
                    THEN [called EXCEPT
                            !.dict = DictPut(@, hash, IF files # <<>> THEN files
                                                      ELSE TagIds(clist[i])),
                            !.returned = break_on_first]
                    ELSE Go(i + 1, called)
    IN Go(ci, acc)

\* for container in container_list: ... (match, record, return or break)
RECURSIVE ScanContainers(_, _, _, _, _, _, _)
ScanContainers(item, hash, clist, li, ci, break_on_first, acc) ==
    IF ci > Len(clist)
    THEN acc
    ELSE IF Raises(clist[ci])
    THEN [acc EXCEPT !.returned = TRUE, !.raised = TRUE]
    ELSE LET files == find_required_files(item, TagIds(clist[ci]))
             called == [acc EXCEPT !.calls = Append(@, <<hash, li, ci>>)]
         IN IF files # <<>>
            THEN [called EXCEPT !.dict = DictPut(@, hash, files),
                                !.returned = break_on_first]
            ELSE ScanContainers(item, hash, clist, li, ci + 1, break_on_first, called)

\* ScanLists with the File Matcher run on nothing when the payload holds no
\* container list.
ScanListsMatchEmpty(item, hash, lists, li, break_on_first, acc) ==
    LET RECURSIVE Go(_, _)
        Go(i, a) ==
            IF i > Len(lists) \/ a.returned THEN a
            ELSE Go(i + 1, ScanContainers(item, hash, lists[i], i, 1, break_on_first, a))
    IN IF lists = <<>>
       THEN [acc EXCEPT !.calls = Append(@, <<hash, 0, 0>>)]
       ELSE Go(li, acc)

\* for container_list in provider.values(): ...
RECURSIVE ScanLists(_, _, _, _, _, _)
ScanLists(item, hash, lists, li, break_on_first, acc) ==
    IF li > Len(lists) \/ acc.returned
    THEN acc
    ELSE ScanLists(item, hash, lists, li + 1, break_on_first,
                   ScanContainers(item, hash, lists[li], li, 1, break_on_first, acc))

\* for hash, provider in cached_hashes.items(): ...
RECURSIVE ScanHashes(_, _, _, _, _)
ScanHashes(item, data, hi, break_on_first, acc) ==
    IF hi > Len(data) \/ acc.returned
    THEN acc
    ELSE ScanHashes(item, data, hi + 1, break_on_first,
                    IF ~data[hi].provider.isdict
                    THEN acc
                    ELSE ScanLists(item, data[hi].hash, data[hi].provider.lists, 1,
                                   break_on_first, acc))

\* is_cached(item, streams, break_on_first): the mapping returned (none when an
\* exception leaves it), with what it did on the way: the argument of each
\* get_instant_availability call, the requests issued, the errors logged and
\* the File Matcher calls.
is_cached(item, streams, break_on_first, net) ==
    LET avail == get_instant_availability(streams, net)
        scan == ScanHashes(item, avail.data, 1, break_on_first,
                           ScanState(EmptyDict, <<>>, FALSE, FALSE))
    IN [dict |-> IF scan.raised THEN EmptyDict ELSE scan.dict,
        raised |-> scan.raised,
        data |-> avail.data,
        avail_calls |-> <<streams>>,
        requests |-> avail.requests,
        calls |-> avail.calls,
        errors |-> avail.errors,
        matcher_calls |-> scan.calls]

\* get_cached_hashes(item, streams)
get_cached_hashes(item, streams, net) == is_cached(item, streams, FALSE, net)

\* ------------------------------------------------------------------- state

FlowIds == {"f1", "f2"}

VARIABLES
    pc,             \* per flow: where the flow is inside run(item)
    media,          \* per flow: the media item it resolves
    blacklist,      \* per flow: the item's blacklisted streams (info-hashes)
    bind,           \* per flow: folder/alternative_folder/file of the item (0) and its episodes
    loc,            \* per flow: the locals of run / download
    runs,           \* per flow: run(item) calls made so far
    result,         \* per flow: outcome of the last finished run(item)
    account,        \* the provider account's torrents, in listing order
    active_stream,  \* self.active_stream of the downloader
    add_calls,      \* per info-hash: add-magnet calls issued so far
    hist,           \* per flow: what the current run(item) call has done
    initialized,    \* self.initialized of the downloader ("unset" until validate ran)
    last_call,      \* the last request the transport issued, with the limiters acquired
    rq,             \* a direct call's arguments and network reply
    rr              \* that call's result

vars == <<pc, media, blacklist, bind, loc, runs, result, account, active_stream,
          add_calls, hist, initialized, last_call, rq, rr>>

flowvars == <<pc, media, blacklist, bind, loc, runs, result, account, active_stream,
              add_calls, hist, initialized, last_call>>

\* item.streams: the candidate info-hashes, in list order.
Streams == [i \in 1..NHashes |-> i]

\* The binding fields of one target; Unset before any write.
Binding(folder, alt, file) == [folder |-> folder, alternative_folder |-> alt, file |-> file]
Unset == Binding(<<>>, <<>>, "")
Targets == 0..2

\* A torrent of the account.
Torrent(id, hash, selected) == [id |-> id, hash |-> hash, selected |-> selected]

\* Selections an account torrent left by earlier work can carry: none, the
\* sample only, one episode file, both episode files.
Selections == {{}, {FileS.id}, {FileA.id}, {FileA.id, FileB.id}}

NoLocals == [idx |-> 0, return_value |-> FALSE, hash |-> None, container |-> <<>>,
             torrent |-> None, torrent_id |-> None]

\* What a flow's current run(item) call has done so far: the blacklist and the
\* bindings it started from, the availability checks made (hash, whether a match came
\* back), the hash of the last check if its availability call failed, the hashes whose reported container had no file for some episode the
\* item requires, the hashes download was called for, the download's remote
\* operations, what the reuse check saw and decided, and the targets written;
\* and, kept over the flow's calls, the streams earlier calls found without a
\* match and whether select-files was ever issued on a torrent that had a
\* selection.
NoHist == [bl0 |-> {}, bind0 |-> [t \in Targets |-> Unset],
           queried |-> <<>>, failed |-> None, lacking |-> {}, dl |-> <<>>, ops |-> <<>>,
           wrote |-> {},
           list_any |-> FALSE, list_last |-> None, reused |-> FALSE, found |-> "none",
           found_id |-> None,
           prev_nomatch |-> {}, reselected |-> FALSE]

Unmatched(q) == {q[i].hash : i \in {j \in 1..Len(q) : ~q[j].matched}}

NoRequest == [op |-> "none", item |-> MovieItem, hashes |-> <<>>, net |-> Failure]
NoResult == [done |-> FALSE, dict |-> EmptyDict, raised |-> FALSE, data |-> <<>>,
             avail_calls |-> <<>>, requests |-> 0, calls |-> <<>>, errors |-> <<>>,
             matcher_calls |-> <<>>]

\* The account before the flows start: empty, or one torrent left by earlier
\* work on the item's first stream (a finished download, a magnet added and
\* never selected, a selection made for something else).
\* Or two torrents of that hash, one finished and one never selected, in either
\* listing order.
InitialAccounts ==
    {<<>>}
    \cup {<<Torrent(1, h, sel)>> : h \in {Streams[1]}, sel \in Selections}
    \cup {<<Torrent(1, h, {FileA.id, FileB.id}), Torrent(2, h, {})>> : h \in {Streams[1]}}
    \cup {<<Torrent(1, h, {}), Torrent(2, h, {FileA.id, FileB.id})>> : h \in {Streams[1]}}

\* Show and episode items are resolved against an account that holds no
\* torrent yet.
InitFlows(started) ==
    /\ pc = [f \in FlowIds |-> IF f \in started THEN "idle" ELSE "off"]
    /\ media \in [FlowIds -> Items]
    /\ \A f \in FlowIds : f \notin started => media[f] = MovieItem
    /\ blacklist = [f \in FlowIds |-> {}]
    /\ bind = [f \in FlowIds |-> [t \in Targets |-> Unset]]
    /\ loc = [f \in FlowIds |-> NoLocals]
    /\ runs = [f \in FlowIds |-> 0]
    /\ result = [f \in FlowIds |-> "none"]
    /\ account \in InitialAccounts
    /\ \A f \in FlowIds : media[f].type \in {"show", "episode"} => account = <<>>
    /\ active_stream = None
    /\ add_calls = [h \in Hashes |-> 0]
    /\ hist = [f \in FlowIds |-> NoHist]
    /\ initialized = "unset"
    /\ last_call = NoCall

Init ==
    /\ InitFlows({"f1"})
    /\ rq = NoRequest
    /\ rr = NoResult

\* --------------------------------------------------------- provider client

\* What the provider answers about torrent t (GET /torrents/info/{id}); the
\* file list is empty as long as the provider has not fetched the torrent's
\* metadata (known), which it has once files are selected.
InfoFile(f, selected) ==
    [id |-> f.id, path |-> <<"/", f.filename>>, bytes |-> f.filesize, selected |-> selected]
TorrentInfo(t, known) ==
    [present |-> TRUE,
     filename |-> <<"filename", t.id>>,
     original_filename |-> <<"original_filename", t.id>>,
     files |-> IF known
               THEN [i \in 1..Len(TorrentFiles) |->
                        InfoFile(TorrentFiles[i], TorrentFiles[i].id \in t.selected)]
               ELSE <<>>]
\* The {} a failed get_torrent_info returns: no "files", no "filename" key.
EmptyInfo == [present |-> FALSE, filename |-> <<>>, original_filename |-> <<>>, files |-> <<>>]

InfoReplies(request_id) ==
    {Failure}
    \cup {Reply(TRUE, TorrentInfo(account[i], TRUE)) :
             i \in {j \in 1..Len(account) : account[j].id = request_id}}
    \cup {Reply(TRUE, TorrentInfo(account[i], FALSE)) :
             i \in {j \in 1..Len(account) : account[j].id = request_id
                                             /\ account[j].selected = {}}}

\* get_torrent_info(request_id): {} without a request when the id is empty, {}
\* on failure, else the response data.
get_torrent_info(request_id, net) ==
    IF request_id = None THEN EmptyInfo
    ELSE IF net.ok THEN net.data ELSE EmptyInfo

\* get_torrents(limit): {torrent.hash: torrent for torrent in response.data},
\* {} on failure; read here through torrents.get(hash_key): the id of the last
\* listed torrent with that hash, or None.
get_torrents(net, hash_key) ==
    LET listing == IF net.ok THEN net.data ELSE <<>>
        at == {i \in 1..Len(listing) : listing[i].hash = hash_key}
    IN IF at = {} THEN None
       ELSE listing[CHOOSE i \in at : \A j \in at : j <= i].id

\* Path(file["path"]).name
PathName(path) == path[Len(path)]

\* The selected files of a torrent's info, as the File Matcher takes them.
SelectedFiles(info) ==
    LET IsSelected(x) == x.selected
        sel == SelectSeq(info.files, IsSelected)
    IN [i \in 1..Len(sel) |-> File(sel[i].id, PathName(sel[i].path), sel[i].bytes)]

\* The verdict of torrent_is_downloaded once the torrent's info is there.
ReuseVerdict(item, info) ==
    IF info.files = <<>> THEN "unready"
    ELSE IF SelectedFiles(info) = <<>> THEN "unselected"
    ELSE IF find_required_files(item, SelectedFiles(info)) = <<>> THEN "mismatch"
    ELSE "reusable"

\* Whether account torrent t's selected files satisfy the item.
Satisfies(item, t) ==
    find_required_files(item, SelectedFiles(TorrentInfo(t, TRUE))) # <<>>

\* ",".join(str(file["id"]) for file in container)
ContainerIds(container) == {container[i].id : i \in 1..Len(container)}

\* A remote operation of download as the flow's history keeps it: what it was
\* about (info-hash or torrent id), whether it succeeded, and the ids it
\* carried or returned (the file ids selected, the torrent id add-magnet gave).
Op(op, arg, ok, ids) == [op |-> op, arg |-> arg, ok |-> ok, ids |-> ids]
Logged(f, entry) == [hist[f] EXCEPT !.ops = Append(@, entry)]

\* -------------------------------------------------------------- validate

\* GET /user: the account as the provider describes it.
UserInfo(type, premium, expiration) ==
    [type |-> type, premium |-> premium, expiration |-> expiration]
UserReplies ==
    {Failure} \cup {Reply(TRUE, UserInfo(t, p, e)) :
                       t \in {"premium", "free"}, p \in {0, 86400},
                       e \in {"", "2030-01-01T00:00:00.000Z"}}

\* What validate returns for the answer to its ping: False when the response
\* is not ok or an exception is caught (the transport's, or fromisoformat's on
\* an expiration that does not parse), False for an account that is not
\* premium, else whether premium time is left.
Validated(net) ==
    /\ net.ok
    /\ net.data.expiration # ""
    /\ net.data.type = "premium"
    /\ net.data.premium > 0

\* __init__: self.initialized = self.validate(). The settings tests come
\* first and return False without a request; then the account is pinged with
\* the overall limiter only.
Validate ==
    /\ initialized = "unset"
    /\ \E enabled \in BOOLEAN, api_key \in BOOLEAN, proxy_ok \in BOOLEAN, net \in UserReplies :
         IF ~enabled \/ ~api_key \/ ~FilesizeSettingsValid \/ ~proxy_ok
         THEN /\ initialized' = "False"
              /\ last_call' = last_call
         ELSE /\ initialized' = IF Validated(net) THEN "True" ELSE "False"
              /\ last_call' = Issue("user")
    /\ UNCHANGED <<pc, media, blacklist, bind, loc, runs, result, account, active_stream,
                   add_calls, hist, rq, rr>>

\* ------------------------------------------------------------------ run

\* item.is_stream_blacklisted(stream) and item.blacklist_stream(stream) on the
\* item's blacklist: membership, and the move of the stream into it.
is_stream_blacklisted(bl, stream) == stream \in bl

\* blacklist_stream with the stream left out of the blacklist.
blacklist_streamDropped(bl, stream) == bl

blacklist_stream(bl, stream) == bl \cup {stream}

\* NextIdx without the blacklist test: every stream is taken.
NextIdxNoSkip(bl, i) == i

\* for stream in item.streams: if item.is_stream_blacklisted(stream): continue
\* The index of the first stream at or after i that is not blacklisted.
RECURSIVE NextIdx(_, _)
NextIdx(bl, i) ==
    IF i > Len(Streams) THEN i
    ELSE IF is_stream_blacklisted(bl, Streams[i]) THEN NextIdx(bl, i + 1)
    ELSE i

\* The loop of run from stream index i on: the next stream to check, or the
\* end of the list and the return of return_value.
Advance(f, bl, i, l) ==
    LET j == NextIdx(bl, i)
    IN IF j > Len(Streams)
       THEN /\ pc' = [pc EXCEPT ![f] = "returned"]
            /\ result' = [result EXCEPT ![f] = IF l.return_value THEN "True" ELSE "False"]
            /\ loc' = [loc EXCEPT ![f] = NoLocals]
       ELSE /\ pc' = [pc EXCEPT ![f] = "is_cached"]
            /\ result' = result
            /\ loc' = [loc EXCEPT ![f] = [l EXCEPT !.idx = j, !.hash = Streams[j]]]

\* An exception leaves run: nothing is returned, the locals are gone.
Raise(f) ==
    /\ pc' = [pc EXCEPT ![f] = "raised"]
    /\ result' = [result EXCEPT ![f] = "raised"]
    /\ loc' = [loc EXCEPT ![f] = NoLocals]

\* run(item) is called.
Run(f) ==
    /\ initialized = "True"
    /\ pc[f] \in {"idle", "returned", "raised"}
    /\ runs[f] < MaxRuns
    /\ runs' = [runs EXCEPT ![f] = @ + 1]
    /\ hist' = [hist EXCEPT ![f] =
                  [NoHist EXCEPT !.bl0 = blacklist[f],
                                 !.bind0 = bind[f],
                                 !.prev_nomatch = hist[f].prev_nomatch \cup Unmatched(hist[f].queried),
                                 !.reselected = hist[f].reselected]]
    /\ Advance(f, blacklist[f], 1, NoLocals)
    /\ UNCHANGED <<media, blacklist, bind, account, active_stream, add_calls,
                   initialized, last_call, rq, rr>>

\* Whether the availability data reports containers for the item's episodes
\* and every container reported has no file for at least one of them.
HasFileFor(e, container) ==
    \E i \in 1..Len(container.items) : ParseEpisode(container.items[i].value.filename) = e
LacksEpisode(item, data) ==
    /\ item.episodes # <<>>
    /\ data # <<>>
    /\ \A k \in 1..Len(data) :
          /\ data[k].provider.isdict
          /\ data[k].provider.lists # <<>>
          /\ \A l \in 1..Len(data[k].provider.lists) :
                /\ data[k].provider.lists[l] # <<>>
                /\ \A c \in 1..Len(data[k].provider.lists[l]) :
                      LET container == data[k].provider.lists[l][c]
                      IN /\ ~Raises(container)
                         /\ \E i \in 1..Len(item.episodes) :
                               ~HasFileFor(item.episodes[i], container)

\* file_dict = self.is_cached(item, [stream.infohash], True); if file_dict:
\* go on to download, else blacklist the stream and take the next one.
CheckCached(f) ==
    /\ pc[f] = "is_cached"
    /\ \E net \in StreamReplies(loc[f].hash) :
         LET cached == is_cached(media[f], <<loc[f].hash>>, TRUE, net)
             file_dict == cached.dict
             matched == file_dict # EmptyDict
             h1 == [hist[f] EXCEPT
                      !.queried = Append(@, [hash |-> loc[f].hash, matched |-> matched]),
                      !.failed = IF net.ok THEN None ELSE loc[f].hash,
                      !.lacking = IF LacksEpisode(media[f], cached.data)
                                  THEN @ \cup {loc[f].hash} ELSE @,
                      !.dl = IF matched THEN Append(@, loc[f].hash) ELSE @]
         IN IF cached.raised
            THEN /\ Raise(f)
                 /\ UNCHANGED <<blacklist, hist>>
            ELSE /\ hist' = [hist EXCEPT ![f] = h1]
                 /\ IF matched
                    THEN /\ pc' = [pc EXCEPT ![f] = "get_torrents"]
                         /\ loc' = [loc EXCEPT ![f].container = file_dict[loc[f].hash]]
                         /\ UNCHANGED <<blacklist, result>>
                    ELSE /\ blacklist' = [blacklist EXCEPT ![f] = blacklist_stream(@, loc[f].hash)]
                         /\ Advance(f, blacklist'[f], loc[f].idx + 1, loc[f])
    /\ last_call' = Issue("instantAvailability")
    /\ UNCHANGED <<media, bind, runs, account, active_stream, add_calls, initialized, rq, rr>>

\* ------------------------------------------------------------- download

\* torrent_is_downloaded, first half: torrents = self.get_torrents(1000);
\* torrent = torrents.get(hash_key); no torrent: return None.
GetTorrents(f) ==
    /\ pc[f] = "get_torrents"
    /\ \E net \in {Failure, Reply(TRUE, account)} :
         LET torrent == get_torrents(net, loc[f].hash)
             mine == {i \in 1..Len(net.data) : net.data[i].hash = loc[f].hash}
             h1 == [hist[f] EXCEPT
                      !.list_any = \E i \in mine : Satisfies(media[f], net.data[i]),
                      !.list_last = IF \E i \in mine : /\ \A j \in mine : j <= i
                                                       /\ Satisfies(media[f], net.data[i])
                                    THEN torrent ELSE None]
         IN IF torrent = None
            THEN /\ pc' = [pc EXCEPT ![f] = "add_magnet"]
                 /\ hist' = [hist EXCEPT ![f] =
                               [h1 EXCEPT !.found = IF net.ok THEN "absent" ELSE "unlisted"]]
                 /\ loc' = loc
            ELSE /\ pc' = [pc EXCEPT ![f] = "reuse_info"]
                 /\ hist' = [hist EXCEPT ![f] = h1]
                 /\ loc' = [loc EXCEPT ![f].torrent = torrent]
    /\ last_call' = Issue("torrents")
    /\ UNCHANGED <<media, blacklist, bind, runs, result, account, active_stream,
                   add_calls, initialized, rq, rr>>

\* AfterReuseCheck with the torrent id dropped: download always adds the magnet.
AfterReuseCheckAlwaysAdd(f, verdict, h1) ==
    /\ pc' = [pc EXCEPT ![f] = "add_magnet"]
    /\ loc' = loc
    /\ hist' = [hist EXCEPT ![f] = [h1 EXCEPT !.found = verdict,
                                             !.found_id = loc[f].torrent]]

\* Where download goes with torrent_is_downloaded's verdict: to binding with
\* the torrent's id, or to add_magnet.
AfterReuseCheck(f, verdict, h1) ==
    IF verdict = "reusable"
    THEN /\ pc' = [pc EXCEPT ![f] = "set_active_files"]
         /\ loc' = [loc EXCEPT ![f].torrent_id = loc[f].torrent]
         /\ hist' = [hist EXCEPT ![f] = [h1 EXCEPT !.found = verdict, !.reused = TRUE,
                                                  !.found_id = loc[f].torrent]]
    ELSE /\ pc' = [pc EXCEPT ![f] = "add_magnet"]
         /\ loc' = loc
         /\ hist' = [hist EXCEPT ![f] = [h1 EXCEPT !.found = verdict,
                                                  !.found_id = loc[f].torrent]]

\* ReuseInfo with the files of a torrent found unselected selected by the reuse
\* check itself.
ReuseInfoSelects(f) ==
    /\ pc[f] = "reuse_info"
    /\ \E net \in InfoReplies(loc[f].torrent) :
         LET info == get_torrent_info(loc[f].torrent, net)
             verdict == ReuseVerdict(media[f], info)
             ids == ContainerIds(loc[f].container)
         IN IF ~info.present
            THEN /\ Raise(f)
                 /\ UNCHANGED <<hist, account>>
            ELSE /\ AfterReuseCheck(f, verdict,
                                    IF verdict = "unselected"
                                    THEN Logged(f, Op("select", loc[f].torrent, TRUE, ids))
                                    ELSE hist[f])
                 /\ account' = IF verdict = "unselected"
                                THEN [i \in 1..Len(account) |->
                                         IF account[i].id = loc[f].torrent
                                         THEN [account[i] EXCEPT !.selected = ids]
                                         ELSE account[i]]
                                ELSE account
                 /\ result' = result
    /\ last_call' = Issue("info")
    /\ UNCHANGED <<media, blacklist, bind, runs, active_stream, add_calls,
                   initialized, rq, rr>>

\* torrent_is_downloaded, second half: info = self.get_torrent_info(torrent.id);
\* info["files"] (KeyError on {}), the selected files, the File Matcher.
ReuseInfo(f) ==
    /\ pc[f] = "reuse_info"
    /\ \E net \in InfoReplies(loc[f].torrent) :
         LET info == get_torrent_info(loc[f].torrent, net)
             h1 == hist[f]
         IN IF ~info.present
            THEN /\ Raise(f)
                 /\ hist' = [hist EXCEPT ![f] = h1]
            ELSE /\ AfterReuseCheck(f, ReuseVerdict(media[f], info), h1)
                 /\ result' = result
    /\ last_call' = Issue("info")
    /\ UNCHANGED <<media, blacklist, bind, runs, account, active_stream, add_calls,
                   initialized, rq, rr>>

\* torrent_id = self.add_magnet(stream): the new torrent's id, None on failure.
\* The account lists its torrents in the order they were added.
AddMagnet(f) ==
    /\ pc[f] = "add_magnet"
    /\ \E ok \in BOOLEAN :
         LET id == Len(account) + 1
             t == Torrent(id, loc[f].hash, {})
         IN /\ account' = IF ok THEN Append(account, t) ELSE account
            /\ loc' = [loc EXCEPT ![f].torrent_id = IF ok THEN id ELSE None]
            /\ hist' = [hist EXCEPT ![f] =
                          Logged(f, Op("add", loc[f].hash, ok, IF ok THEN {id} ELSE {}))]
    /\ add_calls' = [add_calls EXCEPT ![loc[f].hash] = @ + 1]
    /\ pc' = [pc EXCEPT ![f] = "sleep"]
    /\ last_call' = Issue("addMagnet")
    /\ UNCHANGED <<media, blacklist, bind, runs, result, active_stream, initialized, rq, rr>>

\* time.sleep(1)
Sleep(f) ==
    /\ pc[f] = "sleep"
    /\ pc' = [pc EXCEPT ![f] = "select_files"]
    /\ hist' = [hist EXCEPT ![f] = Logged(f, Op("sleep", None, TRUE, {}))]
    /\ UNCHANGED <<media, blacklist, bind, loc, runs, result, account, active_stream,
                   add_calls, initialized, last_call, rq, rr>>

\* Whether the provider can accept select-files for request_id: the torrent
\* exists.
Selectable(request_id) ==
    \E i \in 1..Len(account) : account[i].id = request_id

\* Where download goes after select_files returned ok (line 161 drops the
\* value): on to set_active_files.
AfterSelect(f, ok) ==
    pc' = [pc EXCEPT ![f] = "set_active_files"]

\* self.select_files(torrent_id, container): POST selectFiles/{id} with the
\* container's file ids; True when the response is ok, False otherwise.
SelectFiles(f) ==
    /\ pc[f] = "select_files"
    /\ \E ok \in {FALSE} \cup {x \in {TRUE} : Selectable(loc[f].torrent_id)} :
         LET ids == ContainerIds(loc[f].container)
         IN /\ account' = IF ok
                          THEN [i \in 1..Len(account) |->
                                   IF account[i].id = loc[f].torrent_id
                                   THEN [account[i] EXCEPT !.selected = ids]
                                   ELSE account[i]]
                          ELSE account
            /\ hist' = [hist EXCEPT ![f] =
                          [Logged(f, Op("select", loc[f].torrent_id, ok, ids)) EXCEPT
                             !.reselected = @ \/ \E i \in 1..Len(account) :
                                                    /\ account[i].id = loc[f].torrent_id
                                                    /\ account[i].selected # {}]]
            /\ AfterSelect(f, ok)
    /\ last_call' = Issue("selectFiles")
    /\ UNCHANGED <<media, blacklist, bind, loc, runs, result, active_stream, add_calls,
                   initialized, rq, rr>>

\* ------------------------------------------------------------- binding

\* The three fields written from the torrent's info and the matched file.
BindingOf(info, file) == Binding(info.filename, info.original_filename, file.filename)

Outcome(raised, bnd, wrote) == [raised |-> raised, bind |-> bnd, wrote |-> wrote]

\* set_active_files with the writes lost for a torrent whose info could not be
\* fetched: nothing is written and nothing raised.
set_active_filesSkipNoInfo(item, info, container, bnd) ==
    LET files == find_required_files(item, container)
        eps == {item.episodes[i] : i \in 1..Len(item.episodes)}
        hit == {e \in eps : find_required_files(EpisodeOf(e), files) # <<>>}
    IN IF container = <<>> \/ files = <<>> \/ ~info.present
       THEN Outcome(FALSE, bnd, {})
       ELSE IF item.type \in {"movie", "episode"}
       THEN Outcome(FALSE, [bnd EXCEPT ![0] = BindingOf(info, files[1])], {0})
       ELSE Outcome(FALSE,
                    [t \in Targets |->
                       IF t \in hit
                       THEN BindingOf(info, find_required_files(EpisodeOf(t), files)[1])
                       ELSE bnd[t]],
                    hit)

\* set_active_files with the writes of a Season or Show made on the item
\* itself, from the first file of its match.
set_active_filesOnItem(item, info, container, bnd) ==
    LET files == find_required_files(item, container)
    IN IF container = <<>> \/ files = <<>> \/ ~info.present
       THEN Outcome(container = <<>> \/ ~info.present, bnd, {})
       ELSE Outcome(FALSE, [bnd EXCEPT ![0] = BindingOf(info, files[1])], {0})

\* set_active_files(item, torrent_id, container) once info is fetched: the
\* item's bindings afterwards and the targets written, or the KeyError raised
\* by info["filename"] on {} before the first write. An empty container makes
\* it match info["files"] itself (KeyError on {}), whose records have neither
\* the "filename" nor the "filesize" key the finder reads; with no file there
\* the match is empty and nothing is written.
set_active_files(item, info, container, bnd) ==
    IF container = <<>>
    THEN Outcome(~info.present \/ info.files # <<>>, bnd, {})
    ELSE LET files == find_required_files(item, container)
         IN IF item.type \in {"movie", "episode"}
            THEN IF files = <<>> \/ ~info.present
                 THEN Outcome(TRUE, bnd, {})
                 ELSE Outcome(FALSE, [bnd EXCEPT ![0] = BindingOf(info, files[1])], {0})
            ELSE LET eps == {item.episodes[i] : i \in 1..Len(item.episodes)}
                     hit == {e \in eps : find_required_files(EpisodeOf(e), files) # <<>>}
                 IN IF hit # {} /\ ~info.present
                    THEN Outcome(TRUE, bnd, {})
                    ELSE Outcome(FALSE,
                                 [t \in Targets |->
                                    IF t \in hit
                                    THEN BindingOf(info, find_required_files(EpisodeOf(t), files)[1])
                                    ELSE bnd[t]],
                                 hit)

\* FinishDownload with run's break lost: the loop goes on with the next stream.
FinishDownloadNoBreak(f) ==
    /\ active_stream' = loc[f].hash
    /\ Advance(f, blacklist[f], loc[f].idx + 1, [loc[f] EXCEPT !.return_value = TRUE])

\* self.active_stream = stream; back in run: return_value = True; break;
\* return return_value.
FinishDownload(f) ==
    /\ active_stream' = loc[f].hash
    /\ loc' = [loc EXCEPT ![f] = NoLocals]
    /\ pc' = [pc EXCEPT ![f] = "returned"]
    /\ result' = [result EXCEPT ![f] = "True"]

\* self.set_active_files(item, torrent_id, container), then the end of download.
SetActiveFiles(f) ==
    /\ pc[f] = "set_active_files"
    /\ \E net \in InfoReplies(loc[f].torrent_id) :
         LET info == get_torrent_info(loc[f].torrent_id, net)
             out == set_active_files(media[f], info, loc[f].container, bind[f])
             h1 == IF loc[f].torrent_id = None THEN hist[f]
                   ELSE Logged(f, Op("info", loc[f].torrent_id, net.ok, {}))
         IN IF out.raised
            THEN /\ Raise(f)
                 /\ hist' = [hist EXCEPT ![f] = h1]
                 /\ UNCHANGED <<bind, active_stream>>
            ELSE /\ bind' = [bind EXCEPT ![f] = out.bind]
                 /\ hist' = [hist EXCEPT ![f] = [h1 EXCEPT !.wrote = out.wrote]]
                 /\ FinishDownload(f)
    /\ last_call' = IF loc[f].torrent_id = None THEN last_call ELSE Issue("info")
    /\ UNCHANGED <<media, blacklist, runs, account, add_calls, initialized, rq, rr>>

\* ------------------------------------------------------------ run flows

Next ==
    \/ Validate
    \/ \E f \in FlowIds :
         \/ Run(f)
         \/ CheckCached(f)
         \/ GetTorrents(f)
         \/ ReuseInfo(f)
         \/ AddMagnet(f)
         \/ Sleep(f)
         \/ SelectFiles(f)
         \/ SetActiveFiles(f)

Spec == Init /\ [][Next]_vars

\* ------------------------------------------------------ concurrent flows

\* Two callers on the one downloader, each with its own item (a movie or a
\* season) and one run(item) call to make, the items listing the same streams,
\* the account empty; their steps interleave in any order.
InitConcurrent ==
    /\ pc = [f \in FlowIds |-> "idle"]
    /\ media \in [FlowIds -> {MovieItem, SeasonItem}]
    /\ blacklist = [f \in FlowIds |-> {}]
    /\ bind = [f \in FlowIds |-> [t \in Targets |-> Unset]]
    /\ loc = [f \in FlowIds |-> NoLocals]
    /\ runs = [f \in FlowIds |-> MaxRuns - 1]
    /\ result = [f \in FlowIds |-> "none"]
    /\ account = <<>>
    /\ active_stream = None
    /\ add_calls = [h \in Hashes |-> 0]
    /\ hist = [f \in FlowIds |-> NoHist]
    /\ initialized = "unset"
    /\ last_call = NoCall
    /\ rq = NoRequest
    /\ rr = NoResult

SpecConcurrent == InitConcurrent /\ [][Next]_vars

\* ----------------------------------------------------- resolver calls

\* The hash lists a resolver call is given.
ResolveHashLists == {<<>>, <<1>>, <<1, 2>>}

\* The per-hash payloads that report k containers: in one list, or over two.
PayloadsWith(k) ==
    (IF k = 0 THEN {NotDict, DictPayload(<<>>)} ELSE {})
    \cup {DictPayload(<<a>>) : a \in ContSeqs(k)}
    \cup UNION {{DictPayload(<<a, b>>) : a \in ContSeqs(n), b \in ContSeqs(k - n)}
                 : n \in 0..k}

\* Availability data for the hashes that reports at most n containers in all.
RECURSIVE AvailDataUpTo(_, _)
AvailDataUpTo(hashes, n) ==
    IF hashes = <<>> THEN {<<>>}
    ELSE UNION {{<<AvailEntry(Head(hashes), p)>> \o rest :
                    p \in PayloadsWith(k), rest \in AvailDataUpTo(Tail(hashes), n - k)}
                : k \in 0..n}

\* Replies whose data reports at most MaxContainers containers in all.
ResolveReplies(hashes) ==
    {Failure} \cup {Reply(TRUE, d) : d \in AvailDataUpTo(hashes, MaxContainers)}

\* A downloader that is initialized and has no run(item) flow.
NoFlows ==
    /\ pc = [f \in FlowIds |-> "off"]
    /\ media = [f \in FlowIds |-> MovieItem]
    /\ blacklist = [f \in FlowIds |-> {}]
    /\ bind = [f \in FlowIds |-> [t \in Targets |-> Unset]]
    /\ loc = [f \in FlowIds |-> NoLocals]
    /\ runs = [f \in FlowIds |-> 0]
    /\ result = [f \in FlowIds |-> "none"]
    /\ account = <<>>
    /\ active_stream = None
    /\ add_calls = [h \in Hashes |-> 0]
    /\ hist = [f \in FlowIds |-> NoHist]
    /\ initialized = "True"
    /\ last_call = NoCall

InitResolve ==
    /\ NoFlows
    /\ \E item \in Items, hashes \in ResolveHashLists :
         \E net \in ResolveReplies(hashes) :
            rq = [op |-> "pending", item |-> item, hashes |-> hashes, net |-> net]
    /\ rr = NoResult

Resolved(r) ==
    [done |-> TRUE, dict |-> r.dict, raised |-> r.raised, data |-> r.data,
     avail_calls |-> r.avail_calls, requests |-> r.requests, calls |-> r.calls,
     errors |-> r.errors, matcher_calls |-> r.matcher_calls]

\* A caller invokes is_cached(item, hashes, True).
IsCachedCall ==
    /\ rq.op = "pending"
    /\ rq' = [rq EXCEPT !.op = "is_cached"]
    /\ rr' = Resolved(is_cached(rq.item, rq.hashes, TRUE, rq.net))
    /\ UNCHANGED flowvars

\* A caller invokes get_cached_hashes(item, hashes).
GetCachedHashesCall ==
    /\ rq.op = "pending"
    /\ rq' = [rq EXCEPT !.op = "get_cached_hashes"]
    /\ rr' = Resolved(get_cached_hashes(rq.item, rq.hashes, rq.net))
    /\ UNCHANGED flowvars

\* A caller invokes get_instant_availability(hashes).
GetInstantAvailabilityCall ==
    /\ rq.op = "pending"
    /\ rq' = [rq EXCEPT !.op = "get_instant_availability"]
    /\ rr' = LET avail == get_instant_availability(rq.hashes, rq.net)
             IN [NoResult EXCEPT !.done = TRUE, !.data = avail.data,
                                 !.avail_calls = <<rq.hashes>>,
                                 !.requests = avail.requests, !.calls = avail.calls,
                                 !.errors = avail.errors]
    /\ UNCHANGED flowvars

NextResolve == IsCachedCall \/ GetCachedHashesCall \/ GetInstantAvailabilityCall

SpecResolve == InitResolve /\ [][NextResolve]_vars

\* ------------------------------------------------------- binding calls

\* The files of s at the indices idx, in s's order.
Pick(s, idx) ==
    LET Keep[i \in 0..Len(s)] ==
            IF i = 0 THEN <<>>
            ELSE IF i \in idx THEN Append(Keep[i - 1], s[i]) ELSE Keep[i - 1]
    IN Keep[Len(s)]

\* The containers a binding call is given: any of the torrent's files, in the
\* provider's order, or none.
BindContainers == {Pick(TorrentFiles, idx) : idx \in SUBSET (1..Len(TorrentFiles))}

\* The torrent a binding call is about and what get_torrent_info is answered.
BoundTorrent == Torrent(1, Streams[1], {})
BindReplies ==
    {Failure, Reply(TRUE, TorrentInfo(BoundTorrent, TRUE)),
     Reply(TRUE, TorrentInfo(BoundTorrent, FALSE))}

\* The bindings the item and its episodes carry before the call: none, or
\* those of an earlier download.
PriorBindings ==
    {[t \in Targets |-> Unset],
     [t \in Targets |-> Binding(<<"filename", 0>>, <<"original_filename", 0>>, "earlier.mkv")]}

InitBind ==
    /\ NoFlows
    /\ \E item \in Items, container \in BindContainers, id \in {None, BoundTorrent.id},
          net \in BindReplies, bnd \in PriorBindings :
            rq = [op |-> "pending", item |-> item, torrent_id |-> id,
                  container |-> container, net |-> net, bind |-> bnd]
    /\ rr = [done |-> FALSE, raised |-> FALSE, bind |-> rq.bind, wrote |-> {}]

\* A caller invokes set_active_files(item, torrent_id, container).
SetActiveFilesCall ==
    /\ rq.op = "pending"
    /\ rq' = [rq EXCEPT !.op = "set_active_files"]
    /\ rr' = LET info == get_torrent_info(rq.torrent_id, rq.net)
                 out == set_active_files(rq.item, info, rq.container, rq.bind)
             IN [done |-> TRUE, raised |-> out.raised, bind |-> out.bind,
                 wrote |-> out.wrote]
    /\ UNCHANGED flowvars

NextBind == SetActiveFilesCall

SpecBind == InitBind /\ [][NextBind]_vars

\* ------------------------------------------------------------- scrapers

\* Number of entries (streams, torrents) one scrape response lists.
MaxEntries == 2

\* A string as a sequence of tokens (a marker of the payload's format, or a run
\* of other characters), or None in the place of a string.
Str(tokens) == [isstr |-> TRUE, tokens |-> tokens]
NoneValue == [isstr |-> FALSE, tokens |-> <<>>]

\* not x, for a string or None.
Falsy(x) == ~x.isstr \/ x.tokens = <<>>

\* str.split(sep) on a token sequence: the pieces between the occurrences of
\* sep, one more than there are occurrences.
RECURSIVE Split(_, _)
Split(tokens, sep) ==
    IF tokens = <<>> THEN <<<<>>>>
    ELSE LET rest == Split(Tail(tokens), sep)
         IN IF Head(tokens) = sep
            THEN <<<<>>>> \o rest
            ELSE <<<<Head(tokens)>> \o rest[1]>> \o Tail(rest)

\* str.replace(old, ""): every occurrence of old is taken out.
Remove(tokens, old) ==
    LET Keep(t) == t # old
    IN SelectSeq(tokens, Keep)

\* The markers of a Mediafusion stream: description "<folder mark><title>
\* <size mark>..." and url "...?info_hash=<hash>".
FolderMark == "folder-mark"
SizeMark == "newline-size-mark"
HashMark == "?info_hash="

Descriptions ==
    {Str(<<FolderMark, "title1", SizeMark, "1 GB">>),
     Str(<<"title2", SizeMark, "2 GB">>),
     Str(<<FolderMark, SizeMark, "1 GB">>),
     Str(<<FolderMark, "title1">>)}
Urls ==
    {Str(<<"http://host/stream", HashMark, "hash1">>),
     Str(<<"http://host/stream", HashMark, "hash2", HashMark, "hash1">>),
     Str(<<"http://host/stream", HashMark>>),
     Str(<<"http://host/stream">>)}

\* A stream of the Mediafusion response; a description that is None is what a
\* payload of an unexpected shape looks like to scrape.
MediafusionStream(description, url) == [description |-> description, url |-> url]
MediafusionStreams ==
    {MediafusionStream(d, u) : d \in Descriptions, u \in Urls}
    \cup {MediafusionStream(NoneValue, Str(<<"http://host/stream", HashMark, "hash1">>))}

\* A torrent of the TorBox response.
TorBoxTorrent(hash, raw_title) == [hash |-> hash, raw_title |-> raw_title]
TorBoxTorrents ==
    {TorBoxTorrent(h, t) :
        h \in {Str(<<"hash1">>), Str(<<"hash2">>), Str(<<>>), NoneValue},
        t \in {Str(<<"title1">>), Str(<<"title2">>), Str(<<>>)}}

\* The exceptions a scrape can end by, by class, with the status of the
\* response a RequestException carries (None: no response).
Exc(class, status) == [class |-> class, status |-> status]
NoExc == Exc("none", None)
TeapotStatus == 418
ServerErrorStatus == 500
ScrapeExceptions ==
    {Exc(c, None) : c \in {"RateLimitExceeded", "ConnectTimeout", "ReadTimeout",
                           "RequestException", "AttributeError"}}
    \cup {Exc("RequestException", st) : st \in {TeapotStatus, ServerErrorStatus}}

\* Whether an exception of class c is caught by "except h": the class itself,
\* the timeouts as request exceptions, and every class as Exception.
IsInstance(c, h) ==
    \/ c = h
    \/ h = "RequestException" /\ c \in {"ConnectTimeout", "ReadTimeout"}
    \/ h = "Exception"

\* Handlers with the closing "except Exception" left out.
HandlersNoCatchAll(scraper) ==
    IF scraper = "mediafusion"
    THEN <<"RateLimitExceeded", "ConnectTimeout", "ReadTimeout", "RequestException">>
    ELSE <<"RateLimitExceeded", "ConnectTimeout", "RequestException">>

\* The except clauses of run, in order.
Handlers(scraper) ==
    IF scraper = "mediafusion"
    THEN <<"RateLimitExceeded", "ConnectTimeout", "ReadTimeout", "RequestException",
           "Exception">>
    ELSE <<"RateLimitExceeded", "ConnectTimeout", "RequestException", "Exception">>

\* What request_handler.execute does for the scrape request: it raises, or
\* returns a response that is ok (with the entries listed) or not.
ScrapeReply(raised, ok, entries) == [raised |-> raised, ok |-> ok, entries |-> entries]

EntrySeqs(S) == UNION {[1..n -> S] : n \in 0..MaxEntries}

ScrapeReplies(scraper) ==
    {ScrapeReply(e, FALSE, <<>>) : e \in ScrapeExceptions}
    \cup {ScrapeReply(NoExc, FALSE, <<>>)}
    \cup {ScrapeReply(NoExc, TRUE, es) :
             es \in EntrySeqs(IF scraper = "mediafusion" THEN MediafusionStreams
                              ELSE TorBoxTorrents)}

\* The item a scraper is run on; NoItem is None in its place.
NoItem == Item("none", 0, <<>>)

\* What scrape ends with: the exception raised, or the mapping returned.
Scraped(raised, torrents) == [raised |-> raised, torrents |-> torrents]

\* Mediafusion.scrape's loop over response.data.streams from index i on.
RECURSIVE MediafusionLoop(_, _, _)
MediafusionLoop(streams, i, torrents) ==
    IF i > Len(streams) THEN Scraped(NoExc, torrents)
    ELSE IF ~streams[i].description.isstr
    THEN Scraped(Exc("AttributeError", None), EmptyDict)
    ELSE LET description_split == Split(streams[i].description.tokens, SizeMark)
             raw_title == Remove(description_split[1], FolderMark)
             url_split == Split(streams[i].url.tokens, HashMark)
             info_hash == url_split[2]
         IN IF Len(description_split) < 2 \/ Len(url_split) < 2
            THEN MediafusionLoop(streams, i + 1, torrents)
            ELSE IF info_hash = <<>> \/ raw_title = <<>>
            THEN MediafusionLoop(streams, i + 1, torrents)
            ELSE MediafusionLoop(streams, i + 1, DictPut(torrents, info_hash, raw_title))

\* Mediafusion.scrape(item)
MediafusionScrape(item, net) ==
    IF net.raised # NoExc THEN Scraped(net.raised, EmptyDict)
    ELSE IF ~net.ok \/ Len(net.entries) <= 0 THEN Scraped(NoExc, EmptyDict)
    ELSE MediafusionLoop(net.entries, 1, EmptyDict)

\* TorBoxScraper.scrape's loop over response.data.data.torrents from index i on.
RECURSIVE TorBoxLoop(_, _, _)
TorBoxLoop(entries, i, torrents) ==
    IF i > Len(entries) THEN torrents
    ELSE IF Falsy(entries[i].hash) \/ Falsy(entries[i].raw_title)
    THEN TorBoxLoop(entries, i + 1, torrents)
    ELSE TorBoxLoop(entries, i + 1,
                    DictPut(torrents, entries[i].hash.tokens, entries[i].raw_title.tokens))

\* TorBoxScraper.scrape(item): _build_query_params reads item.imdb_id before
\* the request is made.
TorBoxScrape(item, net) ==
    IF item = NoItem THEN Scraped(Exc("AttributeError", None), EmptyDict)
    ELSE IF net.raised # NoExc THEN Scraped(net.raised, EmptyDict)
    ELSE IF ~net.ok \/ net.entries = <<>> THEN Scraped(NoExc, EmptyDict)
    ELSE Scraped(NoExc, TorBoxLoop(net.entries, 1, EmptyDict))

\* What run ends with: an exception that leaves it, or the mapping returned,
\* and the level of the message logged by the except clause taken.
Ran(raised, torrents, log) == [done |-> TRUE, raised |-> raised, torrents |-> torrents,
                               log |-> log]

\* bool(e.response): a response evaluates to its ok, which no error status has.
ResponseTruthy(status) == status # None /\ status < 400

\* The body of the except clause for class h: the level it logs at, or the
\* exception it raises itself (item.log_string on None).
HandlerBody(scraper, h, item, exc) ==
    IF h = "Exception" THEN Ran(FALSE, EmptyDict, <<"ERROR">>)
    ELSE IF h = "RequestException" /\ scraper = "mediafusion"
    THEN Ran(FALSE, EmptyDict, <<"ERROR">>)
    ELSE IF h = "RequestException"
    THEN IF ResponseTruthy(exc.status) /\ exc.status \in {TeapotStatus, ServerErrorStatus}
         THEN Ran(item = NoItem, EmptyDict, <<"NOT_FOUND">>)
         ELSE Ran(FALSE, EmptyDict, <<>>)
    ELSE IF h = "ConnectTimeout" /\ scraper = "torbox"
    THEN Ran(item = NoItem, EmptyDict, <<"NOT_FOUND">>)
    ELSE Ran(item = NoItem, EmptyDict, <<"WARNING">>)

\* try: return self.scrape(item) / except ...: / return {}
RunScraper(scraper, item, scraped) ==
    LET hs == Handlers(scraper)
        taken == {i \in 1..Len(hs) : IsInstance(scraped.raised.class, hs[i])}
    IN IF scraped.raised = NoExc THEN Ran(FALSE, scraped.torrents, <<>>)
       ELSE IF taken = {} THEN Ran(TRUE, EmptyDict, <<>>)
       ELSE HandlerBody(scraper, hs[CHOOSE i \in taken : \A j \in taken : i <= j],
                        item, scraped.raised)

\* Mediafusion.run(item): {} at once for no item.
MediafusionRun(item, net) ==
    IF item = NoItem THEN Ran(FALSE, EmptyDict, <<>>)
    ELSE RunScraper("mediafusion", item, MediafusionScrape(item, net))

\* TorBoxScraper.run(item)
TorBoxRun(item, net) == RunScraper("torbox", item, TorBoxScrape(item, net))

InitScrape ==
    /\ NoFlows
    /\ \E scraper \in {"mediafusion", "torbox"}, item \in Items \cup {NoItem} :
         \E net \in ScrapeReplies(scraper) :
            rq = [op |-> "pending", scraper |-> scraper, item |-> item, net |-> net]
    /\ rr = [done |-> FALSE, raised |-> FALSE, torrents |-> EmptyDict, log |-> <<>>]

\* A caller invokes Mediafusion.run(item).
MediafusionRunCall ==
    /\ rq.op = "pending"
    /\ rq.scraper = "mediafusion"
    /\ rq' = [rq EXCEPT !.op = "Mediafusion.run"]
    /\ rr' = MediafusionRun(rq.item, rq.net)
    /\ UNCHANGED flowvars

\* A caller invokes TorBoxScraper.run(item).
TorBoxRunCall ==
    /\ rq.op = "pending"
    /\ rq.scraper = "torbox"
    /\ rq' = [rq EXCEPT !.op = "TorBoxScraper.run"]
    /\ rr' = TorBoxRun(rq.item, rq.net)
    /\ UNCHANGED flowvars

NextScrape == MediafusionRunCall \/ TorBoxRunCall

SpecScrape == InitScrape /\ [][NextScrape]_vars

\* ================================================================ claims

RunActive(f) == pc[f] \notin {"off", "idle"}

\* The streams a call starting from blacklist bl0 has to look at, in list order.
Candidates(bl0) ==
    LET Open(h) == h \notin bl0
    IN SelectSeq(Streams, Open)

OpsOf(f, op) == {i \in 1..Len(hist[f].ops) : hist[f].ops[i].op = op}

\* C1: run(item) checks the streams in list order, leaving out the blacklisted
\* ones; nothing is checked after the first match; download is called for that
\* stream only (one add-magnet and one select-files at most, for that hash);
\* the streams blacklisted by the call are exactly those checked without a match.
C1_OneDownloadPerRun ==
    \A f \in FlowIds : RunActive(f) =>
        LET q == hist[f].queried
            cand == Candidates(hist[f].bl0)
            last == q[Len(q)]
        IN /\ Len(q) <= Len(cand)
           /\ \A i \in 1..Len(q) : q[i].hash = cand[i]
           /\ \A i \in 1..(Len(q) - 1) : ~q[i].matched
           /\ hist[f].dl = IF q # <<>> /\ last.matched THEN <<last.hash>> ELSE <<>>
           /\ blacklist[f] = hist[f].bl0 \cup Unmatched(q)
           /\ hist[f].ops # <<>> => hist[f].dl # <<>>
           /\ \A i \in OpsOf(f, "add") : hist[f].ops[i].arg = hist[f].dl[1]
           /\ Cardinality(OpsOf(f, "add")) <= 1
           /\ Cardinality(OpsOf(f, "select")) <= 1
           /\ (pc[f] = "returned" /\ result[f] = "False") => Len(q) = Len(cand)

\* A call that bound the first stream and returned with the second stream
\* neither checked nor blacklisted.
C1_Witness ==
    /\ pc["f1"] = "returned"
    /\ result["f1"] = "True"
    /\ hist["f1"].queried = <<[hash |-> Streams[1], matched |-> TRUE]>>
    /\ hist["f1"].wrote # {}
    /\ Streams[2] \notin blacklist["f1"]

\* C2: a stream checked without a match is blacklisted when run returns, and
\* no later run(item) call of the flow checks availability for it.
C2_BlacklistedNotRequeried ==
    \A f \in FlowIds : RunActive(f) =>
        /\ pc[f] = "returned" => Unmatched(hist[f].queried) \subseteq blacklist[f]
        /\ hist[f].prev_nomatch \subseteq blacklist[f]
        /\ \A i \in 1..Len(hist[f].queried) :
              hist[f].queried[i].hash \notin hist[f].prev_nomatch

\* A second call that skipped a stream the first call had blacklisted and
\* checked another one.
C2_Witness ==
    /\ runs["f1"] = 2
    /\ pc["f1"] = "returned"
    /\ hist["f1"].prev_nomatch # {}
    /\ hist["f1"].queried # <<>>

\* C3: over a flow's run(item) calls add-magnet is issued at most once per
\* info-hash and select-files never on a torrent whose files are selected.
C3_NoDuplicateWork ==
    /\ \A h \in Hashes : add_calls[h] <= 1
    /\ \A f \in FlowIds : ~hist[f].reselected

C5_UnselectedTorrentReselected ==
    \A f \in FlowIds : hist[f].found = "unselected" =>
        /\ OpsOf(f, "add") = {}
        /\ \A i \in OpsOf(f, "select") : hist[f].ops[i].arg = hist[f].found_id

\* C6: a torrent of the hash whose selected files do not satisfy the item is
\* not added again and nothing is bound.
C6_MismatchNotReadded ==
    \A f \in FlowIds : hist[f].found = "mismatch" =>
        /\ OpsOf(f, "add") = {}
        /\ hist[f].wrote = {}

\* C7: after a failed select-files nothing is bound for that hash and
\* select-files is not issued again in the flow.
C7_SelectFailureAborts ==
    \A f \in FlowIds :
        (\E i \in OpsOf(f, "select") : ~hist[f].ops[i].ok) =>
            /\ hist[f].wrote = {}
            /\ Cardinality(OpsOf(f, "select")) <= 1

\* C8: run(item) never ends by an exception, whatever remote calls fail.
C8_RunNeverRaises ==
    \A f \in FlowIds : pc[f] # "raised"

\* What the resolver call's availability check delivered.
Delivered == get_instant_availability(rq.hashes, rq.net).data

Matches(item, container) == find_required_files(item, TagIds(container)) # <<>>

\* The container a File Matcher call <<hash, list, container>> was made on.
CalledOn(call) ==
    LET k == CHOOSE i \in 1..Len(Delivered) : Delivered[i].hash = call[1]
    IN Delivered[k].provider.lists[call[2]][call[3]]

\* The containers reported for entry k, in the provider's order.
ContainersOf(k) ==
    IF Delivered[k].provider.isdict THEN ConcatAll(Delivered[k].provider.lists) ELSE <<>>

MatchingOf(k) ==
    LET Hit(c) == Matches(rq.item, c)
    IN SelectSeq(ContainersOf(k), Hit)

\* C9: is_cached(item, hashes, True) calls the availability check once, with
\* all the hashes; it returns at most one entry; only the last File Matcher
\* call it makes can be a match, and that match is the entry returned.
C9_StopAtFirst ==
    (rr.done /\ rq.op = "is_cached") =>
        LET mc == rr.matcher_calls
        IN /\ rr.avail_calls = <<rq.hashes>>
           /\ rr.requests <= 1
           /\ Cardinality(DOMAIN rr.dict) <= 1
           /\ \A i \in 1..(Len(mc) - 1) : ~Matches(rq.item, CalledOn(mc[i]))
           /\ rr.dict # EmptyDict =>
                /\ mc # <<>>
                /\ DOMAIN rr.dict = {mc[Len(mc)][1]}
                /\ rr.dict[mc[Len(mc)][1]] =
                      find_required_files(rq.item, TagIds(CalledOn(mc[Len(mc)])))

\* is_cached returned the first hash's match and left a matching container of
\* the second hash unmatched against.
C9_Witness ==
    /\ rr.done
    /\ rq.op = "is_cached"
    /\ Len(rq.hashes) = 2
    /\ DOMAIN rr.dict = {rq.hashes[1]}
    /\ MatchingOf(2) # <<>>
    /\ Len(rr.matcher_calls) = 1

\* C10: a hash is in the mapping only if one of its containers matches, with
\* the match of the first such container in the provider's order; and
\* get_cached_hashes has every hash that has a matching container.
C10_FirstMatchPerHash ==
    (rr.done /\ ~rr.raised) =>
        /\ \A h \in DOMAIN rr.dict :
              \E k \in 1..Len(Delivered) :
                 /\ Delivered[k].hash = h
                 /\ MatchingOf(k) # <<>>
                 /\ rr.dict[h] = find_required_files(rq.item, TagIds(MatchingOf(k)[1]))
        /\ rq.op = "get_cached_hashes" =>
              \A k \in 1..Len(Delivered) :
                 MatchingOf(k) # <<>> => Delivered[k].hash \in DOMAIN rr.dict

\* Whether every container reported for entry k has the expected shape.
WellFormed(k) ==
    \A i \in 1..Len(ContainersOf(k)) : ~Raises(ContainersOf(k)[i])

\* C11: a payload of an unexpected shape for one hash (a value that is not a
\* dict, a container that is not a dict, a container entry that is not a file
\* record) is skipped for that hash only: is_cached does not raise, and
\* get_cached_hashes still has every hash whose payload is of the expected
\* shape and has a matching container.
C11_MalformedSkipped ==
    (rr.done /\ rq.op \in {"is_cached", "get_cached_hashes"}) =>
        /\ ~rr.raised
        /\ rq.op = "get_cached_hashes" =>
              \A k \in 1..Len(Delivered) :
                 (WellFormed(k) /\ MatchingOf(k) # <<>>) => Delivered[k].hash \in DOMAIN rr.dict

\* C12: for a hash whose availability payload is empty (the empty list, the
\* empty dict, a dict of empty container lists) the File Matcher is never
\* called and the hash is not in the result.
C12_EmptyPayloadNoMatcher ==
    rr.done =>
        \A k \in 1..Len(Delivered) :
            ContainersOf(k) = <<>> =>
                /\ \A i \in 1..Len(rr.matcher_calls) :
                      rr.matcher_calls[i][1] # Delivered[k].hash
                /\ Delivered[k].hash \notin DOMAIN rr.dict

\* get_cached_hashes went over an empty dict for the first hash and resolved
\* the second.
C12_Witness ==
    /\ rr.done
    /\ rq.op = "get_cached_hashes"
    /\ Len(Delivered) = 2
    /\ Delivered[1].provider = DictPayload(<<>>)
    /\ DOMAIN rr.dict = {Delivered[2].hash}
    /\ rr.matcher_calls # <<>>

\* C13: get_instant_availability with no hash returns the empty mapping,
\* issues no request and acquires no limiter, and logs the error; is_cached
\* and get_cached_hashes given no hash return the empty mapping likewise.
C13_EmptyHashesNoRequest ==
    (rr.done /\ rq.hashes = <<>>) =>
        /\ rr.data = <<>>
        /\ rr.requests = 0
        /\ rr.calls = <<>>
        /\ rr.errors = <<"No hashes found">>
        /\ rr.dict = EmptyDict
        /\ ~rr.raised

\* get_instant_availability was called with no hash.
C13_Witness ==
    /\ rr.done
    /\ rq.op = "get_instant_availability"
    /\ rq.hashes = <<>>
    /\ rr.errors # <<>>

\* The info-hash of the account torrent with that id (None: no such torrent).
HashOfTorrent(id) ==
    IF \E i \in 1..Len(account) : account[i].id = id
    THEN account[CHOOSE i \in 1..Len(account) : account[i].id = id].hash
    ELSE None

\* C14: for a Season or Show item, a stream whose reported container has no
\* file for at least one required episode is blacklisted and nothing is done
\* for it: download is not called, no add-magnet and no select-files is issued
\* for its hash and no episode is bound from a torrent of that hash; a call in
\* which download was not called issues no operation and writes nothing.
C14_PartialSeasonNothingDone ==
    \A f \in FlowIds : media[f].type \in {"season", "show"} =>
        /\ \A h \in hist[f].lacking :
              /\ h \in blacklist[f]
              /\ \A i \in 1..Len(hist[f].dl) : hist[f].dl[i] # h
              /\ \A i \in OpsOf(f, "add") : hist[f].ops[i].arg # h
              /\ \A i \in OpsOf(f, "select") : HashOfTorrent(hist[f].ops[i].arg) # h
              /\ \A t \in hist[f].wrote : HashOfTorrent(bind[f][t].folder[2]) # h
        /\ hist[f].dl = <<>> => (hist[f].ops = <<>> /\ hist[f].wrote = {})

\* A call for a season whose every stream had a container short of an episode:
\* it returned False with both streams blacklisted and no episode bound.
C14_Witness ==
    /\ media["f1"] = SeasonItem
    /\ pc["f1"] = "returned"
    /\ result["f1"] = "False"
    /\ hist["f1"].lacking = {Streams[1], Streams[2]}
    /\ hist["f1"].ops = <<>>
    /\ \A t \in Targets : bind["f1"][t] = Unset
    /\ account = <<>>

\* The binding targets of the item of a binding call: the item itself for a
\* Movie or Episode, for a Season or Show its episodes that have a file in the
\* item's match over the container.
BindTargets ==
    LET files == find_required_files(rq.item, rq.container)
    IN IF rq.item.type \in {"movie", "episode"} THEN {0}
       ELSE {rq.item.episodes[i] : i \in {j \in 1..Len(rq.item.episodes) :
                                            MatchEpisode(rq.item.episodes[j], files) # <<>>}}

\* The file bound to target t.
BoundFile(t) ==
    LET files == find_required_files(rq.item, rq.container)
    IN IF t = 0 THEN files[1] ELSE MatchEpisode(t, files)[1]

WithinBounds(size, min, max) == size >= min * Mega /\ (max = -1 \/ size <= max * Mega)

\* C16: the files matched for a Movie item are within the configured movie
\* bounds, and those matched for an Episode, Season or Show item (episode
\* files) within the episode bounds.
C16_GateByContentClass ==
    (rr.done /\ rq.op \in {"is_cached", "get_cached_hashes"}) =>
        \A h \in DOMAIN rr.dict :
            \A i \in 1..Len(rr.dict[h]) :
                IF rq.item.type = "movie"
                THEN WithinBounds(rr.dict[h][i].filesize, movie_filesize_min, movie_filesize_max)
                ELSE WithinBounds(rr.dict[h][i].filesize, episode_filesize_min,
                                  episode_filesize_max)

\* The torrent-specific endpoints.
TorrentOps == {"addMagnet", "instantAvailability", "info", "selectFiles", "torrents"}

\* C17: the torrents limiter allows 1 call per second and the overall limiter
\* 60 per 60 seconds; the last request issued, whichever it is, acquired both
\* when it went to a torrent-specific endpoint and the overall limiter alone
\* when it was validate's account check; and each step of a flow that follows a
\* remote operation finds that operation's request as the last one issued.
C17_LimitersAcquired ==
    /\ torrents_rate_limiter = [max_calls |-> 1, period |-> 1]
    /\ overall_rate_limiter = [max_calls |-> 60, period |-> 60]
    /\ last_call.op \in TorrentOps =>
          last_call.acquired = {torrents_rate_limiter, overall_rate_limiter}
    /\ last_call.op = "user" => last_call.acquired = {overall_rate_limiter}
    /\ initialized = "True" => last_call.op \in TorrentOps \cup {"user"}
    /\ \A f \in FlowIds :
          /\ pc[f] = "get_torrents" => last_call.op = "instantAvailability"
          /\ pc[f] = "reuse_info" => last_call.op = "torrents"
          /\ pc[f] = "add_magnet" => last_call.op \in {"torrents", "info"}
          /\ pc[f] \in {"sleep", "select_files"} => last_call.op = "addMagnet"
          /\ pc[f] = "set_active_files" => last_call.op \in {"selectFiles", "info"}

\* A flow that has just issued select-files, both limiters acquired.
C17_Witness ==
    /\ pc["f1"] = "set_active_files"
    /\ last_call.op = "selectFiles"
    /\ last_call.acquired = {torrents_rate_limiter, overall_rate_limiter}
    /\ Cardinality(last_call.acquired) = 2

\* C18: nothing a flow wrote on the downloader is overwritten by another flow:
\* a flow that returned from its download finds self.active_stream as its
\* download set it.
C18_OnlyLimitersShared ==
    \A f \in FlowIds :
        (pc[f] = "returned" /\ result[f] = "True") => active_stream = hist[f].dl[1]

\* Whether flow f listed the account, found no torrent of hash h there and
\* added the magnet of h.
AddedWhenAbsent(f, h) ==
    /\ hist[f].found = "absent"
    /\ \E i \in OpsOf(f, "add") : hist[f].ops[i].arg = h /\ hist[f].ops[i].ok

\* C19: of two flows that download the same info-hash, at most one adds its
\* magnet, however their reuse checks and add-magnet calls interleave.
C19_MagnetAddedOnce ==
    \A h \in Hashes : \A f \in FlowIds, g \in FlowIds :
        (AddedWhenAbsent(f, h) /\ AddedWhenAbsent(g, h)) => f = g

\* The remote operations of a download that reuses nothing, in order.
DownloadOrder == <<"add", "sleep", "select", "info">>

\* C20: in a download that found no torrent to reuse the operations come in
\* the order add-magnet, wait, select-files, get-torrent-info, and the fields
\* are written after all four; select-files is issued only after an add-magnet
\* of the flow that added the magnet, on the torrent id that add-magnet
\* returned, with exactly the file ids of the container the availability check
\* matched.
C20_AddWaitSelectBind ==
    \A f \in FlowIds : ~hist[f].reused =>
        LET ops == hist[f].ops
        IN /\ Len(ops) <= Len(DownloadOrder)
           /\ \A i \in 1..Len(ops) : ops[i].op = DownloadOrder[i]
           /\ hist[f].wrote # {} => Len(ops) = Len(DownloadOrder)
           /\ \A i \in OpsOf(f, "select") :
                 /\ ops[1].ok
                 /\ ops[1].ids = {ops[i].arg}
                 /\ pc[f] = "set_active_files" => ops[i].ids = ContainerIds(loc[f].container)

\* C21: when run(item) returned True for a Movie or Episode item, folder,
\* alternative_folder and file of the item were written during that call, from
\* the info of a torrent of the stream download was called for, and its
\* episodes were left alone; when run(item) returned False,
\* download was not called and the item and its episodes carry the fields the
\* call started with.
C21_TrueBoundFalseUntouched ==
    \A f \in FlowIds :
        /\ (pc[f] = "returned" /\ result[f] = "True"
              /\ media[f].type \in {"movie", "episode"}) =>
              /\ hist[f].wrote = {0}
              /\ HashOfTorrent(bind[f][0].folder[2]) = hist[f].dl[1]
              /\ bind[f][0].folder = <<"filename", bind[f][0].folder[2]>>
              /\ bind[f][0].alternative_folder = <<"original_filename", bind[f][0].folder[2]>>
              /\ bind[f][0].file # ""
              /\ \A t \in Targets \ {0} : bind[f][t] = hist[f].bind0[t]
        /\ (pc[f] = "returned" /\ result[f] = "False") =>
              /\ hist[f].wrote = {}
              /\ hist[f].dl = <<>>
              /\ bind[f] = hist[f].bind0

\* A movie bound by a first call from the torrent added for the second stream,
\* and a second call on it that returned False and left the fields alone.
C21_Witness ==
    /\ media["f1"] = MovieItem
    /\ runs["f1"] = 2
    /\ pc["f1"] = "returned"
    /\ result["f1"] = "False"
    /\ hist["f1"].bind0[0] # Unset
    /\ bind["f1"][0] = hist["f1"].bind0[0]
    /\ HashOfTorrent(bind["f1"][0].folder[2]) = Streams[2]

\* C22: when run(item) returned False every stream of the item's list is in
\* its blacklist; a stream whose availability call failed (a response that is
\* not ok, an exception) is checked without a match and blacklisted like an
\* uncached one; and the blacklist a call started from is never shrunk.
C22_FalseAllBlacklisted ==
    \A f \in FlowIds :
        /\ (pc[f] = "returned" /\ result[f] = "False") =>
              \A i \in 1..Len(Streams) : is_stream_blacklisted(blacklist[f], Streams[i])
        /\ hist[f].failed # None =>
              /\ hist[f].queried[Len(hist[f].queried)] =
                    [hash |-> hist[f].failed, matched |-> FALSE]
              /\ is_stream_blacklisted(blacklist[f], hist[f].failed)
        /\ hist[f].bl0 \subseteq blacklist[f]
        /\ hist[f].prev_nomatch \subseteq blacklist[f]

\* A call that returned False after the availability call reported nothing
\* cached for the first stream and failed for the second: both are blacklisted.
C22_Witness ==
    /\ pc["f1"] = "returned"
    /\ result["f1"] = "False"
    /\ hist["f1"].bl0 = {}
    /\ hist["f1"].failed = Streams[2]
    /\ Len(hist["f1"].queried) = 2
    /\ blacklist["f1"] = {Streams[1], Streams[2]}

\* Whether the step is one of flow f.
Stepped(f) == <<pc[f], loc[f], hist[f]>> # <<pc'[f], loc'[f], hist'[f]>>

\* What is_cached and torrent_is_downloaded have to leave alone besides the
\* blacklist: the bindings, the account, the add-magnet and select-files calls.
LeftAlone(f) ==
    /\ bind' = bind
    /\ account' = account
    /\ add_calls' = add_calls
    /\ hist'[f].ops = hist[f].ops
    /\ hist'[f].wrote = hist[f].wrote

\* C23: the step of run that calls is_cached and the steps of
\* torrent_is_downloaded write no binding, change nothing on the account and
\* issue no add-magnet and no select-files; torrent_is_downloaded leaves the
\* blacklist alone, and in the step that calls is_cached the blacklist changes
\* only by run blacklisting the stream checked without a match; a binding
\* changes only in the step of set_active_files and a blacklist only in that
\* step of run.
C23_ResolutionReadOnly ==
    [][\A f \in FlowIds :
          /\ (Stepped(f) /\ pc[f] = "is_cached") =>
                /\ LeftAlone(f)
                /\ blacklist'[f] # blacklist[f] =>
                      /\ blacklist'[f] = blacklist_stream(blacklist[f], loc[f].hash)
                      /\ hist'[f].queried =
                            Append(hist[f].queried, [hash |-> loc[f].hash, matched |-> FALSE])
          /\ (Stepped(f) /\ pc[f] \in {"get_torrents", "reuse_info"}) =>
                /\ LeftAlone(f)
                /\ blacklist' = blacklist
          /\ bind'[f] # bind[f] => pc[f] = "set_active_files"
          /\ blacklist'[f] # blacklist[f] => pc[f] = "is_cached"]_vars

\* A flow whose reuse check found a torrent of the stream with no file selected
\* and left it as it was: nothing added, nothing selected, nothing written.
C23_Witness ==
    /\ pc["f1"] = "add_magnet"
    /\ hist["f1"].found = "unselected"
    /\ hist["f1"].ops = <<>>
    /\ bind["f1"] = hist["f1"].bind0
    /\ blacklist["f1"] = hist["f1"].bl0
    /\ account = <<Torrent(1, Streams[1], {})>>
    /\ add_calls = [h \in Hashes |-> 0]

\* What scrape does on the scraper call's inputs.
ScrapeOutcome ==
    IF rq.scraper = "mediafusion" THEN MediafusionScrape(rq.item, rq.net)
    ELSE TorBoxScrape(rq.item, rq.net)

Tokens(seq) == {seq[i] : i \in 1..Len(seq)}

\* Whether the entry (info-hash h, title t) of the result comes from an entry
\* the response lists: for TorBox its hash and raw_title, for Mediafusion
\* pieces of its url and description that hold none of the markers.
FromListed(h, t) ==
    \E i \in 1..Len(rq.net.entries) :
        LET e == rq.net.entries[i]
        IN IF rq.scraper = "torbox"
           THEN e.hash = Str(h) /\ e.raw_title = Str(t)
           ELSE /\ HashMark \in Tokens(e.url.tokens)
                /\ SizeMark \in Tokens(e.description.tokens)
                /\ Tokens(h) \subseteq Tokens(e.url.tokens) \ {HashMark}
                /\ Tokens(t) \subseteq Tokens(e.description.tokens) \ {FolderMark, SizeMark}

\* C24: Mediafusion.run and TorBoxScraper.run are never left by an exception;
\* when scrape raises, whatever the exception, and when the request raised, run
\* returns the empty mapping; when scrape returns, run returns its mapping, in
\* which every info-hash and every raw title is non-empty and comes from an
\* entry the response lists.
C24_ScrapersNeverRaise ==
    (rr.done /\ rq.op \in {"Mediafusion.run", "TorBoxScraper.run"}) =>
        /\ ~rr.raised
        /\ ScrapeOutcome.raised # NoExc => rr.torrents = EmptyDict
        /\ rq.net.raised # NoExc => rr.torrents = EmptyDict
        /\ (ScrapeOutcome.raised = NoExc /\ rq.item # NoItem) =>
              rr.torrents = ScrapeOutcome.torrents
        /\ \A h \in DOMAIN rr.torrents :
              /\ h # <<>>
              /\ rr.torrents[h] # <<>>
              /\ FromListed(h, rr.torrents[h])

\* TorBoxScraper.run on a request that ended by a read timeout, which no except
\* clause names: the empty mapping came back.
C24_Witness ==
    /\ rr.done
    /\ rq.op = "TorBoxScraper.run"
    /\ rq.item # NoItem
    /\ rq.net.raised = Exc("ReadTimeout", None)
    /\ ~rr.raised
    /\ rr.torrents = EmptyDict

====
